---- MODULE Spec2Model ----
\* Model of src/app.py: the 25-to-24 cycle computation, the cycle navigation of
\* resumen / budget_index, and the request handlers that write transactions,
\* accounts, categories, budgets and budget lines.
\*
\* Conventions
\*   - a date is a record [year, month, day]; a raised exception is a record
\*     [exc |-> "<name>"]; amounts are integers counting hundredths (cents);
\*   - a text value coming from a form or a query string is a sequence of
\*     one-character strings; the absent value (Python None) is the constant None;
\*   - one action is one HTTP request: the before_request hook _startup followed
\*     by the handler, up to the commit (or the teardown that discards the
\*     session when the handler returned or raised without committing).
EXTENDS Integers, Sequences, FiniteSets, TLC

VARIABLES
    today,          \* what date.today() returns
    accounts,       \* table account:      set of [id, nombre, saldo_inicial]
    categories,     \* table category:     set of [id, nombre, tipo]
    transactions,   \* table transaction:  set of [id, fecha, concepto, importe, account_id, category_id]
    budgets,        \* table budget:       set of [id, cycle_start, income_estimated]
    budget_lines,   \* table budget_line:  set of [id, budget_id, category_id, amount]
    request,        \* the request being served: handler, method, arguments
    response        \* what the handler returned: status, flashed message, page values

vars == <<today, accounts, categories, transactions, budgets, budget_lines, request, response>>

\* ---------------------------------------------------------------- constants

CYCLE_START_DAY == 25

\* datetime.MINYEAR and datetime.MAXYEAR: date(y, m, d) raises ValueError outside.
MINYEAR == 1

MAXYEAR == 9999

\* ---------------------------------------------------------------- text values

None == <<"<None>">>

Digits == <<"0", "1", "2", "3", "4", "5", "6", "7", "8", "9">>

IsDigit(c) == \E i \in 1..10 : Digits[i] = c

DigitVal(c) == (CHOOSE i \in 1..10 : Digits[i] = c) - 1

\* str.replace(a, b) for one-character a and b
Replace(s, a, b) == [i \in 1..Len(s) |-> IF s[i] = a THEN b ELSE s[i]]

RECURSIVE LStrip(_)
LStrip(s) == IF s # <<>> /\ Head(s) = " " THEN LStrip(Tail(s)) ELSE s

RECURSIVE RStrip(_)
RStrip(s) == IF s # <<>> /\ s[Len(s)] = " " THEN RStrip(SubSeq(s, 1, Len(s) - 1)) ELSE s

\* str.strip()
Strip(s) == RStrip(LStrip(s))

\* request.form.get(key, default) / request.args.get(key, default)
Get(v, default) == IF v = None THEN default ELSE v

\* Python truthiness of an optional string: None and '' are false
Truthy(v) == v # None /\ v # <<>>

\* (v or default)
Or(v, default) == IF Truthy(v) THEN v ELSE default

AllDigits(s) == \A i \in 1..Len(s) : IsDigit(s[i])

RECURSIVE DigitsValue(_)
DigitsValue(s) == IF s = <<>> THEN 0 ELSE 10 * DigitsValue(SubSeq(s, 1, Len(s) - 1)) + DigitVal(s[Len(s)])

IntUnsigned(neg, u) ==
    IF u # <<>> /\ AllDigits(u)
    THEN [ok |-> TRUE, val |-> IF neg THEN 0 - DigitsValue(u) ELSE DigitsValue(u)]
    ELSE [ok |-> FALSE, val |-> 0]

IntStripped(t) ==
    IF t # <<>> /\ Head(t) \in {"-", "+"} THEN IntUnsigned(Head(t) = "-", Tail(t)) ELSE IntUnsigned(FALSE, t)

\* int(s): surrounding blanks and one sign are accepted, then decimal digits;
\* ok is FALSE when int raises ValueError
int(s) == IntStripped(Strip(s))

RECURSIVE str(_)
\* str(n) of a non-negative integer, as url_for writes it into the query string
str(n) == IF n < 10 THEN <<Digits[n + 1]>> ELSE str(n \div 10) \o <<Digits[(n % 10) + 1]>>

\* Position of the first "." in s, or 0
DotPos(s) == IF \E i \in 1..Len(s) : s[i] = "." THEN CHOOSE i \in 1..Len(s) : s[i] = "." /\ \A j \in 1..(i - 1) : s[j] # "." ELSE 0

IsNaNText(u) == u = <<"n", "a", "n">> \/ u = <<"N", "a", "N">>

\* the value of <integer digits>.<fraction digits> in cents
DecimalMagnitude(ip, fp) ==
    100 * DigitsValue(ip)
    + (IF Len(fp) = 0 THEN 0 ELSE IF Len(fp) = 1 THEN 10 * DigitsValue(fp) ELSE DigitsValue(fp))

DecimalOfParts(neg, ip, fp) ==
    IF AllDigits(ip) /\ AllDigits(fp) /\ Len(ip) + Len(fp) > 0 /\ Len(fp) <= 2
    THEN [kind |-> "num", cents |-> IF neg THEN 0 - DecimalMagnitude(ip, fp) ELSE DecimalMagnitude(ip, fp)]
    ELSE [kind |-> "invalid", cents |-> 0]

DecimalUnsigned(neg, u, p) ==
    IF IsNaNText(u) THEN [kind |-> "nan", cents |-> 0]
    ELSE IF p = 0 THEN DecimalOfParts(neg, u, <<>>)
    ELSE DecimalOfParts(neg, SubSeq(u, 1, p - 1), SubSeq(u, p + 1, Len(u)))

DecimalSigned(neg, u) == DecimalUnsigned(neg, u, DotPos(u))

DecimalStripped(t) ==
    IF t # <<>> /\ Head(t) \in {"-", "+"} THEN DecimalSigned(Head(t) = "-", Tail(t)) ELSE DecimalSigned(FALSE, t)

\* Decimal(s): kind "num" with the value in cents, kind "nan" for the quiet NaN
\* the constructor accepts, kind "invalid" when it raises InvalidOperation.
\* Surrounding blanks and one sign are accepted. Amounts are held in cents, the
\* scale of the Numeric(12, 2) columns; the submitted texts have at most two
\* fraction digits.
Decimal(s) == DecimalStripped(Strip(s))

\* ---------------------------------------------------------------- dates

IsLeap(y) == (y % 4 = 0 /\ y % 100 # 0) \/ y % 400 = 0

DaysInMonth(y, m) ==
    IF m = 2 THEN (IF IsLeap(y) THEN 29 ELSE 28)
    ELSE IF m \in {4, 6, 9, 11} THEN 30 ELSE 31

ValueError == [exc |-> "ValueError"]

OverflowError == [exc |-> "OverflowError"]

IsExc(x) == "exc" \in DOMAIN x

\* datetime.date(year, month, day)
date(y, m, d) ==
    IF y \in MINYEAR..MAXYEAR /\ m \in 1..12 /\ d \in 1..DaysInMonth(y, m)
    THEN [year |-> y, month |-> m, day |-> d]
    ELSE ValueError

\* a < b on dates
DateLT(a, b) ==
    \/ a.year < b.year
    \/ a.year = b.year /\ a.month < b.month
    \/ a.year = b.year /\ a.month = b.month /\ a.day < b.day

DateLE(a, b) == a = b \/ DateLT(a, b)

\* d - timedelta(days=1)
MinusOneDay(d) ==
    IF d.day > 1 THEN [d EXCEPT !.day = d.day - 1]
    ELSE IF d.month > 1 THEN [year |-> d.year, month |-> d.month - 1, day |-> DaysInMonth(d.year, d.month - 1)]
    ELSE IF d.year > MINYEAR THEN [year |-> d.year - 1, month |-> 12, day |-> 31]
    ELSE OverflowError

\* the start of the cycle with the comparison ref <= start: the 25th itself falls
\* into the previous cycle
cycle_start_le(ref, cand, start_day) ==
    IF DateLE(ref, cand)
    THEN (IF cand.month = 1 THEN date(cand.year - 1, 12, start_day)
          ELSE date(cand.year, cand.month - 1, start_day))
    ELSE cand

\* if ref < start: start = one calendar month earlier (cand is the start built
\* from ref's year and month)
cycle_start(ref, cand, start_day) ==
    IF DateLT(ref, cand)
    THEN (IF cand.month = 1 THEN date(cand.year - 1, 12, start_day)
          ELSE date(cand.year, cand.month - 1, start_day))
    ELSE cand

\* the end of the cycle without the December rollover
cycle_end_norollover(start, start_day) ==
    IF start.month = 12 THEN date(start.year, 1, start_day)
    ELSE date(start.year, start.month + 1, start_day)

\* end = one calendar month after start
cycle_end(start, start_day) ==
    IF start.month = 12 THEN date(start.year + 1, 1, start_day)
    ELSE date(start.year, start.month + 1, start_day)

\* return start, end (or the ValueError date(...) raised for end)
cycle_return(start, end) == IF IsExc(end) THEN end ELSE [start |-> start, end |-> end]

cycle_from_start(start, start_day) ==
    IF IsExc(start) THEN start ELSE cycle_return(start, cycle_end(start, start_day))

cycle_from_cand(ref, cand, start_day) ==
    IF IsExc(cand) THEN cand ELSE cycle_from_start(cycle_start(ref, cand, start_day), start_day)

\* cycle_bounds(ref, start_day): [start, end] of the cycle containing ref, or
\* the ValueError one of its date(...) constructions raises
cycle_bounds(ref, start_day) == cycle_from_cand(ref, date(ref.year, ref.month, start_day), start_day)

\* Position of the first "-" of s after position from, or 0
DashPos(s, from) ==
    IF \E i \in (from + 1)..Len(s) : s[i] = "-"
    THEN CHOOSE i \in (from + 1)..Len(s) : s[i] = "-" /\ \A j \in (from + 1)..(i - 1) : s[j] # "-"
    ELSE 0

DateOfParts(ys, ms, ds, default) ==
    IF Len(ys) = 4 /\ Len(ms) \in 1..2 /\ Len(ds) \in 1..2 /\ AllDigits(ys) /\ AllDigits(ms) /\ AllDigits(ds)
       /\ ~IsExc(date(DigitsValue(ys), DigitsValue(ms), DigitsValue(ds)))
    THEN date(DigitsValue(ys), DigitsValue(ms), DigitsValue(ds))
    ELSE default

DateOfDashes(s, p1, p2, default) ==
    IF p1 = 0 \/ p2 = 0 THEN default
    ELSE DateOfParts(SubSeq(s, 1, p1 - 1), SubSeq(s, p1 + 1, p2 - 1), SubSeq(s, p2 + 1, Len(s)), default)

\* parse_date(s, default): datetime.strptime(s, "%Y-%m-%d").date(), default on any exception
parse_date(s, default) ==
    IF s = None THEN default ELSE DateOfDashes(s, DashPos(s, 0), DashPos(s, DashPos(s, 0)), default)

\* ---------------------------------------------------------------- store

Max(S) == CHOOSE x \in S : \A y \in S : y <= x

\* The integer primary key the store gives a new row: one more than the largest
\* id present (SQLite rowid), 1 in an empty table
NextId(T) == IF T = {} THEN 1 ELSE Max({r.id : r \in T}) + 1

RECURSIVE SumFn(_, _)
\* sum(f[x] for x in S)
SumFn(f, S) == IF S = {} THEN 0 ELSE LET x == CHOOSE x \in S : TRUE IN f[x] + SumFn(f, S \ {x})

SeedAccounts ==
    { [id |-> 1, nombre |-> <<"B", "a", "n", "c", "o">>, saldo_inicial |-> 0],
      [id |-> 2, nombre |-> <<"E", "f", "e", "c", "t", "i", "v", "o">>, saldo_inicial |-> 0] }

SeedCategories ==
    { [id |-> 1, nombre |-> <<"S", "a", "l", "a", "r", "i", "o">>, tipo |-> "ingreso"],
      [id |-> 2, nombre |-> <<"S", "u", "p", "e", "r", "m", "e", "r", "c", "a", "d", "o">>, tipo |-> "gasto"],
      [id |-> 3, nombre |-> <<"T", "r", "a", "n", "s", "p", "o", "r", "t", "e">>, tipo |-> "gasto"],
      [id |-> 4, nombre |-> <<"O", "t", "r", "o", "s", " ", "i", "n", "g", "r", "e", "s", "o", "s">>, tipo |-> "ingreso"],
      [id |-> 5, nombre |-> <<"O", "t", "r", "o", "s", " ", "g", "a", "s", "t", "o", "s">>, tipo |-> "gasto"] }

\* _startup, the before_request hook: seeds an empty account table and an empty
\* category table, and commits
StartupAccounts(accs) == IF accs = {} THEN SeedAccounts ELSE accs

StartupCategories(cats) == IF cats = {} THEN SeedCategories ELSE cats

\* t.category and (t.category.tipo or '').lower() == 'ingreso'; in signed_amount
\* self.category and self.category.tipo == 'ingreso' (the two agree: tipo is
\* 'ingreso' or 'gasto' in every row the handlers write)
IsIngreso(cats, cid) == \E c \in cats : c.id = cid /\ c.tipo = "ingreso"

\* t.category and (t.category.tipo or '').lower() != 'ingreso'
IsGasto(cats, cid) == \E c \in cats : c.id = cid /\ c.tipo # "ingreso"

\* Transaction.signed_amount
signed_amount(cats, t) == IF IsIngreso(cats, t.category_id) THEN t.importe ELSE 0 - t.importe

\* ---------------------------------------------------------------- responses

NoFlash == <<>>

NoPage == [template |-> "none"]

Response(status, flash, page) == [status |-> status, flash |-> flash, page |-> page]

\* an unhandled exception: the session is discarded, the client gets a 500
ServerError(exc) == Response(500, NoFlash, [template |-> "none", exc |-> exc])

NotFound == Response(404, NoFlash, NoPage)

Redirect(flash, location, y, m) == Response(302, flash, [template |-> "none", location |-> location, y |-> y, m |-> m])

IsPage(r) == r.status = 200 /\ r.page.template \in {"resumen.html", "budget_index.html"}

\* ---------------------------------------------------------------- cycle of a request

RefCycle(ref) == IF IsExc(ref) THEN ref ELSE cycle_bounds(ref, CYCLE_START_DAY)

ArgsCycle(y, m) == IF ~y.ok \/ ~m.ok THEN ValueError ELSE RefCycle(date(y.val, m.val, CYCLE_START_DAY))

\* ref = date(int(y_arg), int(m_arg), CYCLE_START_DAY) if y_arg and m_arg else date.today()
\* followed by cycle_bounds(ref, CYCLE_START_DAY); an int() or date() failure is a ValueError
RequestCycle(y_arg, m_arg, now) ==
    IF Truthy(y_arg) /\ Truthy(m_arg) THEN ArgsCycle(int(y_arg), int(m_arg))
    ELSE cycle_bounds(now, CYCLE_START_DAY)

\* Transaction.query.filter(Transaction.fecha >= d1, Transaction.fecha < d2)
InCycle(txs, d1, d2) == {t \in txs : DateLE(d1, t.fecha) /\ DateLT(t.fecha, d2)}

\* ---------------------------------------------------------------- ordered categories, budget rows

\* The characters of names, in code point order
Alphabet ==
    <<" ", "0", "1", "2", "3", "4", "5", "6", "7", "8", "9", "A", "B", "C", "D", "E",
      "F", "G", "H", "I", "J", "K", "L", "M", "N", "O", "P", "Q", "R", "S", "T", "U",
      "V", "W", "X", "Y", "Z", "a", "b", "c", "d", "e", "f", "g", "h", "i", "j", "k",
      "l", "m", "n", "o", "p", "q", "r", "s", "t", "u", "v", "w", "x", "y", "z">>

Ord(c) == CHOOSE i \in 1..Len(Alphabet) : Alphabet[i] = c

RECURSIVE NameLT(_, _)
\* a < b on strings, as ORDER BY nombre and sorted(key=nombre) compare them
NameLT(a, b) ==
    IF b = <<>> THEN FALSE
    ELSE IF a = <<>> THEN TRUE
    ELSE IF Head(a) = Head(b) THEN NameLT(Tail(a), Tail(b))
    ELSE Ord(Head(a)) < Ord(Head(b))

\* the row ORDER BY nombre puts first (nombre is unique)
FirstByNombre(cats) == CHOOSE c \in cats : \A o \in cats : o = c \/ NameLT(c.nombre, o.nombre)

RECURSIVE OrderByNombre(_)
\* Category.query.order_by(Category.nombre).all(), as a sequence of rows
OrderByNombre(cats) ==
    IF cats = {} THEN <<>>
    ELSE <<FirstByNombre(cats)>> \o OrderByNombre(cats \ {FirstByNombre(cats)})

\* gasto_cats = [c for c in cats_all if (c.tipo or '').strip().lower() != 'ingreso']
GastoCats(cats) == OrderByNombre({c \in cats : c.tipo # "ingreso"})

HasBudget(bs, d1) == \E b \in bs : b.cycle_start = d1

\* Budget.query.filter_by(cycle_start=d1).first()
BudgetOf(bs, d1) == CHOOSE b \in bs : b.cycle_start = d1

\* budget.lines
LinesOf(lines, bid) == {l \in lines : l.budget_id = bid}

\* current_lines = {bl.category_id: bl for bl in budget.lines}: the keys, and the
\* line a key maps to (the last one loaded, were there several)
CurrentKeys(lines, bid) == {l.category_id : l \in LinesOf(lines, bid)}

CurrentLine(lines, bid, cid) ==
    CHOOSE l \in LinesOf(lines, bid) :
        /\ l.category_id = cid
        /\ \A o \in LinesOf(lines, bid) : o.category_id = cid => o.id <= l.id

\* ---------------------------------------------------------------- resumen

\* total_movs with the movements taken from the displayed cycle only
TotalMovsCycle(cats, txs, tx, a) ==
    SumFn([t \in tx |-> signed_amount(cats, t)], {t \in tx : t.account_id = a.id})

\* total_movs = sum(float(t.signed_amount) for t in movs), movs being
\* Transaction.query.filter_by(account_id=c.id); tx is the displayed cycle's list
TotalMovs(cats, txs, tx, a) ==
    SumFn([t \in txs |-> signed_amount(cats, t)], {t \in txs : t.account_id = a.id})

\* saldos: float(c.saldo_inicial) + total_movs for each account, keyed by account id
Saldos(accs, cats, txs, tx) ==
    [id \in {a.id : a \in accs} |->
        SumFn([a \in accs |-> a.saldo_inicial + TotalMovs(cats, txs, tx, a)], {a \in accs : a.id = id})]

\* ingresos / gastos of the cycle's transactions tx
Ingresos(cats, tx) == SumFn([t \in tx |-> t.importe], {t \in tx : IsIngreso(cats, t.category_id)})

Gastos(cats, tx) == SumFn([t \in tx |-> t.importe], {t \in tx : IsGasto(cats, t.category_id)})

ResumenValues(d1, d2, ingresos, gastos, saldos, prev_anchor, next_anchor) ==
    [template |-> "resumen.html",
     d1 |-> d1, d2 |-> d2, fin_inclusivo |-> MinusOneDay(d2),
     ingresos |-> ingresos, gastos |-> gastos, balance |-> ingresos - gastos,
     saldos |-> saldos,
     prev_y |-> prev_anchor.year, prev_m |-> prev_anchor.month,
     next_y |-> next_anchor.year, next_m |-> next_anchor.month]

ResumenOfCycle(accs, cats, txs, tx, d1, d2) ==
    ResumenValues(d1, d2, Ingresos(cats, tx), Gastos(cats, tx), Saldos(accs, cats, txs, tx),
                  MinusOneDay(d1), d2)

\* the values resumen hands to resumen.html
ResumenPage(accs, cats, txs, d1, d2) == ResumenOfCycle(accs, cats, txs, InCycle(txs, d1, d2), d1, d2)

\* spent_by_cat of resumen: the cycle's spend per category id, over the
\* transactions whose category exists and is not 'ingreso'
ResumenSpentByCat(cats, tx) ==
    [cid \in {t.category_id : t \in {t \in tx : IsGasto(cats, t.category_id)}} |->
        SumFn([t \in tx |-> t.importe], {t \in tx : t.category_id = cid})]

\* budget_by_cat: the amount of each line of the cycle's budget, the lines whose
\* category is missing or 'ingreso' skipped
BudgetByCat(cats, bs, lines, d1) ==
    IF HasBudget(bs, d1)
    THEN [cid \in {k \in CurrentKeys(lines, BudgetOf(bs, d1).id) : IsGasto(cats, k)} |->
              CurrentLine(lines, BudgetOf(bs, d1).id, cid).amount]
    ELSE <<>>

\* the ids sorted by the name they are given, all of them by id
AllCatIdsById(cats, ids) ==
    [i \in 1..Cardinality(ids) |-> CHOOSE k \in ids : Cardinality({j \in ids : j < k}) = i - 1]

\* all_cat_ids = sorted(set(budget_by_cat) | set(spent_by_cat), key=nombre);
\* every id of the two dicts is the id of a category, so no key is ''
AllCatIds(cats, ids) ==
    [i \in 1..Cardinality(ids) |-> OrderByNombre({c \in cats : c.id \in ids})[i].id]

NombreOf(cats, k) == (CHOOSE c \in cats : c.id = k).nombre

\* d.get(k, 0.0)
GetOr0(d, k) == IF k \in DOMAIN d THEN d[k] ELSE 0

\* labels_bv, data_budget, data_spent
BudgetVsSpent(cats, all_cat_ids, budget_by_cat, spent_by_cat) ==
    [labels_bv |-> [i \in DOMAIN all_cat_ids |-> NombreOf(cats, all_cat_ids[i])],
     data_budget |-> [i \in DOMAIN all_cat_ids |-> GetOr0(budget_by_cat, all_cat_ids[i])],
     data_spent |-> [i \in DOMAIN all_cat_ids |-> GetOr0(spent_by_cat, all_cat_ids[i])]]

BudgetVsSpentOf(cats, budget_by_cat, spent_by_cat) ==
    BudgetVsSpent(cats, AllCatIds(cats, DOMAIN budget_by_cat \cup DOMAIN spent_by_cat),
                  budget_by_cat, spent_by_cat)

\* d + timedelta(days=1), within a cycle (never past the last representable date)
PlusOneDay(d) ==
    IF d.day < DaysInMonth(d.year, d.month) THEN [d EXCEPT !.day = d.day + 1]
    ELSE IF d.month < 12 THEN [year |-> d.year, month |-> d.month + 1, day |-> 1]
    ELSE [year |-> d.year + 1, month |-> 1, day |-> 1]

RECURSIVE DaysFrom(_, _)
\* the values d takes in: d = d1; while d < d2: ...; d += timedelta(days=1)
DaysFrom(d, d2) == IF DateLT(d, d2) THEN <<d>> \o DaysFrom(PlusOneDay(d), d2) ELSE <<>>

\* daily_ing[d]: the cycle's transactions of that date whose category exists
\* and is 'ingreso'
DailyIng(cats, tx, d) == SumFn([t \in tx |-> t.importe], {t \in tx : t.fecha = d /\ IsIngreso(cats, t.category_id)})

\* daily_gas[d]: the else branch, every other transaction of that date
DailyGas(cats, tx, d) == SumFn([t \in tx |-> t.importe], {t \in tx : t.fecha = d /\ ~IsIngreso(cats, t.category_id)})

RECURSIVE AccAfter(_, _)
\* acc after the first i passes of the loop: acc += day
AccAfter(daily, i) == IF i = 0 THEN 0 ELSE AccAfter(daily, i - 1) + daily[i]

\* the accumulated series: series.append(acc) in each pass
Accumulated(daily) == [i \in DOMAIN daily |-> AccAfter(daily, i)]

\* labels_days (day and month of d.strftime('%d/%m')) and the four series
DailySeries(days, diario_i, diario_g) ==
    [labels_days |-> [i \in DOMAIN days |-> [d |-> days[i].day, m |-> days[i].month]],
     series_ingresos_diario |-> diario_i,
     series_gastos_diario |-> diario_g,
     series_ingresos |-> Accumulated(diario_i),
     series_gastos |-> Accumulated(diario_g)]

DailySeriesOf(cats, tx, days) ==
    DailySeries(days, [i \in DOMAIN days |-> DailyIng(cats, tx, days[i])],
                [i \in DOMAIN days |-> DailyGas(cats, tx, days[i])])

\* the chart values resumen hands to resumen.html
ResumenCharts(cats, tx, bs, lines, d1, d2) ==
    BudgetVsSpentOf(cats, BudgetByCat(cats, bs, lines, d1), ResumenSpentByCat(cats, tx))
    @@ DailySeriesOf(cats, tx, DaysFrom(d1, d2))

ResumenResponse(accs, cats, txs, bs, lines, cyc) ==
    IF IsExc(cyc) THEN ServerError(cyc.exc)
    ELSE Response(200, NoFlash,
                  ResumenPage(accs, cats, txs, cyc.start, cyc.end)
                  @@ ResumenCharts(cats, InCycle(txs, cyc.start, cyc.end), bs, lines, cyc.start, cyc.end))

\* GET /resumen?y=..&m=..
resumen(y_arg, m_arg, via, hops) ==
    /\ request' = [handler |-> "resumen", method |-> "GET", via |-> via, hops |-> hops,
                   args |-> [y |-> y_arg, m |-> m_arg]]
    /\ accounts' = StartupAccounts(accounts)
    /\ categories' = StartupCategories(categories)
    /\ response' = ResumenResponse(StartupAccounts(accounts), StartupCategories(categories), transactions,
                                   budgets, budget_lines, RequestCycle(y_arg, m_arg, today))
    /\ UNCHANGED <<today, transactions, budgets, budget_lines>>

HomeResponse(cyc) ==
    IF IsExc(cyc) THEN ServerError(cyc.exc)
    ELSE Redirect(NoFlash, "resumen", cyc.start.year, cyc.start.month)

\* GET / : redirects to the resumen of the cycle containing today
home ==
    /\ request' = [handler |-> "home", method |-> "GET", via |-> "direct", hops |-> 0,
                   args |-> [y |-> None, m |-> None]]
    /\ accounts' = StartupAccounts(accounts)
    /\ categories' = StartupCategories(categories)
    /\ response' = HomeResponse(cycle_bounds(today, CYCLE_START_DAY))
    /\ UNCHANGED <<today, transactions, budgets, budget_lines>>

\* ---------------------------------------------------------------- presupuesto

\* request.form.get(f'cat_{c.id}')
FormCat(form, cid) == IF cid \in DOMAIN form.cat THEN form.cat[cid] ELSE None

DecimalOrZero(d) == IF d.kind = "num" THEN d.cents ELSE 0

\* budget.income_estimated = Decimal(s), Decimal('0.00') when that raises;
\* a NaN is stored as NULL and read back as 0
IncomeEstimated(form) == DecimalOrZero(Decimal(Replace(Or(form.income_estimated, <<"0">>), ",", ".")))

NewLine(lines, bid, cid, amt) == [id |-> NextId(lines), budget_id |-> bid, category_id |-> cid, amount |-> amt]

\* current_lines[c.id].amount = amt
SetAmount(lines, bl, amt) == (lines \ {bl}) \cup {[bl EXCEPT !.amount = amt]}

\* the branch on amt with the positive branch always adding a line
LineDecideAlwaysAdd(c, bid, current, st, amt) ==
    IF amt > 0
    THEN [st EXCEPT !.lines = @ \cup {NewLine(@, bid, c.id, amt)}]
    ELSE IF c.id \in CurrentKeys(current, bid)
         THEN [st EXCEPT !.deleted = @ \cup {CurrentLine(current, bid, c.id).id}]
         ELSE st

\* if amt > 0: update the current line or add one; else: delete the current line.
\* st.lines is the table with the session's pending updates and inserts,
\* st.deleted the ids marked for deletion; current is the table as loaded
\* before the loop (current_lines).
LineDecide(c, bid, current, st, amt) ==
    IF amt > 0
    THEN IF c.id \in CurrentKeys(current, bid)
         THEN [st EXCEPT !.lines = SetAmount(@, CurrentLine(current, bid, c.id), amt)]
         ELSE [st EXCEPT !.lines = @ \cup {NewLine(@, bid, c.id, amt)}]
    ELSE IF c.id \in CurrentKeys(current, bid)
         THEN [st EXCEPT !.deleted = @ \cup {CurrentLine(current, bid, c.id).id}]
         ELSE st

\* amt = Decimal(...), Decimal('0') when that raises; amt > 0 raises
\* InvalidOperation on a NaN
LineParsed(c, bid, current, st, d) ==
    IF d.kind = "nan" THEN [st EXCEPT !.exc = "InvalidOperation"]
    ELSE LineDecide(c, bid, current, st, IF d.kind = "invalid" THEN 0 ELSE d.cents)

\* a blank value is parsed like any other (and, being unparsable, counts as 0)
LineValueNoSkip(c, bid, current, st, val_s) ==
    IF st.exc # "" THEN st
    ELSE LineParsed(c, bid, current, st, Decimal(Replace(val_s, ",", ".")))

\* if val_s == '': continue
LineValue(c, bid, current, st, val_s) ==
    IF st.exc # "" \/ val_s = <<>> THEN st
    ELSE LineParsed(c, bid, current, st, Decimal(Replace(val_s, ",", ".")))

\* One pass of the category loop of a budget_index POST (for c in gasto_cats);
\* st.exc is the exception raised so far
LineStep(c, form, bid, current, st) == LineValue(c, bid, current, st, Strip(Or(FormCat(form, c.id), <<>>)))

RECURSIVE LineLoop(_, _, _, _, _)
LineLoop(gasto_cats, form, bid, current, st) ==
    IF gasto_cats = <<>> THEN st
    ELSE LineLoop(Tail(gasto_cats), form, bid, current, LineStep(Head(gasto_cats), form, bid, current, st))

\* db.session.commit(): the budget row with its income_estimated, the updated and
\* inserted lines, minus the deleted ones
BudgetCommitted(bs, d1, form, bid, st) ==
    [exc |-> st.exc,
     budgets |-> {b \in bs : b.id # bid}
                 \cup {[id |-> bid, cycle_start |-> d1, income_estimated |-> IncomeEstimated(form)]},
     budget_lines |-> {l \in st.lines : l.id \notin st.deleted}]

BudgetPostFor(cats, bs, lines, d1, form, bid) ==
    BudgetCommitted(bs, d1, form, bid,
                    LineLoop(GastoCats(cats), form, bid, lines, [lines |-> lines, deleted |-> {}, exc |-> ""]))

\* The tables a budget_index POST commits for cycle start d1, or the exception
\* that ends it before db.session.commit(); a missing budget row is created
BudgetPost(cats, bs, lines, d1, form) ==
    BudgetPostFor(cats, bs, lines, d1, form, IF HasBudget(bs, d1) THEN BudgetOf(bs, d1).id ELSE NextId(bs))

\* line_by_cat[bl.category_id] = float(bl.amount or 0) for bl in budget.lines
LineByCat(bs, lines, d1) ==
    IF HasBudget(bs, d1)
    THEN [cid \in CurrentKeys(lines, BudgetOf(bs, d1).id) |-> CurrentLine(lines, BudgetOf(bs, d1).id, cid).amount]
    ELSE <<>>

\* spent_by_cat over the cycle's transactions
SpentByCat(cats, tx) ==
    [cid \in {t.category_id : t \in {t \in tx : IsGasto(cats, t.category_id)}} |->
        SumFn([t \in tx |-> t.importe], {t \in tx : t.category_id = cid})]

GastoIds(cats) == {c.id : c \in {c \in cats : c.tipo # "ingreso"}}

BudgetValues(cats, bs, d1, d2, line_by_cat, spent_by_cat, income_real, prev_anchor, next_anchor) ==
    [template |-> "budget_index.html",
     d1 |-> d1, d2 |-> d2, fin_inclusivo |-> MinusOneDay(d2),
     gasto_cats |-> GastoCats(cats),
     line_by_cat |-> line_by_cat, spent_by_cat |-> spent_by_cat,
     income_estimated |-> IF HasBudget(bs, d1) THEN BudgetOf(bs, d1).income_estimated ELSE 0,
     total_budget |-> SumFn(line_by_cat, GastoIds(cats) \cap DOMAIN line_by_cat),
     total_spent |-> SumFn(spent_by_cat, GastoIds(cats) \cap DOMAIN spent_by_cat),
     total_income_real |-> income_real,
     y |-> d1.year, m |-> d1.month,
     prev_y |-> prev_anchor.year, prev_m |-> prev_anchor.month,
     next_y |-> next_anchor.year, next_m |-> next_anchor.month]

BudgetOfCycle(cats, tx, bs, lines, d1, d2) ==
    BudgetValues(cats, bs, d1, d2, LineByCat(bs, lines, d1), SpentByCat(cats, tx), Ingresos(cats, tx),
                 MinusOneDay(d1), d2)

\* the values budget_index hands to budget_index.html
BudgetPage(cats, txs, bs, lines, d1, d2) == BudgetOfCycle(cats, InCycle(txs, d1, d2), bs, lines, d1, d2)

NoForm == [y |-> None, m |-> None, income_estimated |-> None, cat |-> <<>>]

\* db.session.commit(), flash, redirect - or the 500 of the exception raised before
BudgetPosted(cyc, post) ==
    IF post.exc # ""
    THEN /\ response' = ServerError(post.exc)
         /\ UNCHANGED <<budgets, budget_lines>>
    ELSE /\ budgets' = post.budgets
         /\ budget_lines' = post.budget_lines
         /\ response' = Redirect(<<"ok", "Presupuesto guardado">>, "budget_index",
                                 cyc.start.year, cyc.start.month)

BudgetHandled(method, form, cats, cyc) ==
    IF IsExc(cyc)
    THEN /\ response' = ServerError(cyc.exc)
         /\ UNCHANGED <<budgets, budget_lines>>
    ELSE IF method = "POST"
    THEN BudgetPosted(cyc, BudgetPost(cats, budgets, budget_lines, cyc.start, form))
    ELSE /\ response' = Response(200, NoFlash,
                                 BudgetPage(cats, transactions, budgets, budget_lines, cyc.start, cyc.end))
         /\ UNCHANGED <<budgets, budget_lines>>

\* GET or POST /presupuesto
budget_index(method, y_query, m_query, form, via, hops) ==
    /\ request' = [handler |-> "budget_index", method |-> method, via |-> via, hops |-> hops,
                   args |-> [y |-> y_query, m |-> m_query], form |-> form]
    /\ accounts' = StartupAccounts(accounts)
    /\ categories' = StartupCategories(categories)
    /\ UNCHANGED <<today, transactions>>
    /\ BudgetHandled(method, form, StartupCategories(categories),
                     IF method = "POST" THEN RequestCycle(form.y, form.m, today)
                     ELSE RequestCycle(y_query, m_query, today))

\* ---------------------------------------------------------------- navigation

FollowTo(template, y_arg, m_arg, which, hops) ==
    IF template = "resumen.html"
    THEN resumen(y_arg, m_arg, which, hops)
    ELSE budget_index("GET", y_arg, m_arg, NoForm, which, hops)

\* the browser follows the "previous cycle" or "next cycle" link of the page shown:
\* url_for(<handler>, y=prev_y, m=prev_m) / url_for(<handler>, y=next_y, m=next_m)
FollowLink(which, MaxHops) ==
    /\ IsPage(response)
    /\ request.hops < MaxHops
    /\ IF which = "prev"
       THEN FollowTo(response.page.template, str(response.page.prev_y), str(response.page.prev_m),
                     which, request.hops + 1)
       ELSE FollowTo(response.page.template, str(response.page.next_y), str(response.page.next_m),
                     which, request.hops + 1)

\* the browser follows a redirect to resumen or budget_index: url_for(location, y=.., m=..)
FollowRedirect ==
    /\ response.status = 302
    /\ "location" \in DOMAIN response.page
    /\ response.page.location \in {"resumen", "budget_index"}
    /\ FollowTo(IF response.page.location = "resumen" THEN "resumen.html" ELSE "budget_index.html",
                str(response.page.y), str(response.page.m), "redirect", 0)

\* ---------------------------------------------------------------- transacciones

FormPage(status, flash) == Response(status, flash, [template |-> "transactions_form.html"])

ToIndex(flash, location) == Response(302, flash, [template |-> "none", location |-> location])

\* the row transactions_new adds: Transaction(fecha=..., concepto=..., importe=imp, ...)
NewTransaction(txs, form, now, imp) ==
    [id |-> NextId(txs),
     fecha |-> parse_date(form.fecha, now),
     concepto |-> Strip(Get(form.concepto, <<>>)),
     importe |-> imp.cents,
     account_id |-> int(form.account_id).val,
     category_id |-> int(form.category_id).val]

\* try: imp = Decimal(importe_s); if imp <= 0: raise ValueError() / except Exception
\* (the comparison of a NaN raises InvalidOperation, caught like the other failures)
ImporteRejected(imp) == imp.kind # "num" \/ imp.cents <= 0

\* the validation of transactions_new and what it answers
NewChecked(txs, form, now, imp) ==
    IF Strip(Get(form.concepto, <<>>)) = <<>>
    THEN [commit |-> FALSE, response |-> FormPage(200, <<"error", "El concepto es obligatorio">>)]
    ELSE IF ImporteRejected(imp)
    THEN [commit |-> FALSE, response |-> FormPage(200, <<"error", "Importe invalido">>)]
    ELSE [commit |-> TRUE, response |-> ToIndex(<<"ok", "Transaccion creada">>, "transactions_index"),
          row |-> NewTransaction(txs, form, now, imp)]

\* account_id = int(request.form.get('account_id')), category_id likewise: a
\* missing field raises TypeError, a non-number ValueError
IdFieldsExc(form) ==
    IF form.account_id = None THEN "TypeError"
    ELSE IF ~int(form.account_id).ok THEN "ValueError"
    ELSE IF form.category_id = None THEN "TypeError"
    ELSE IF ~int(form.category_id).ok THEN "ValueError"
    ELSE ""

\* the body of a transactions_new POST
NewOutcome(txs, form, now) ==
    IF IdFieldsExc(form) # "" THEN [commit |-> FALSE, response |-> ServerError(IdFieldsExc(form))]
    ELSE NewChecked(txs, form, now, Decimal(Replace(Get(form.importe, <<"0">>), ",", ".")))

TxApply(outcome) ==
    /\ response' = outcome.response
    /\ transactions' = IF outcome.commit
                       THEN {t \in transactions : t.id # outcome.row.id} \cup {outcome.row}
                       ELSE transactions

\* POST /transacciones/nueva (MaxId caps the ids the model lets the table reach)
transactions_new(form, MaxId) ==
    /\ NextId(transactions) <= MaxId
    /\ request' = [handler |-> "transactions_new", method |-> "POST", via |-> "direct", hops |-> 0,
                   args |-> [y |-> None, m |-> None], form |-> form]
    /\ accounts' = StartupAccounts(accounts)
    /\ categories' = StartupCategories(categories)
    /\ TxApply(NewOutcome(transactions, form, today))
    /\ UNCHANGED <<today, budgets, budget_lines>>

\* the row after the assignments t.fecha = ..., t.concepto = ..., t.importe = ..., ...
EditedTransaction(t, form, imp) ==
    [id |-> t.id,
     fecha |-> parse_date(form.fecha, t.fecha),
     concepto |-> Strip(Get(form.concepto, <<>>)),
     importe |-> imp.cents,
     account_id |-> int(form.account_id).val,
     category_id |-> int(form.category_id).val]

\* the form rendered again for the edited transaction (item=t, modo='edit')
EditFormPage(flash, tx_id) ==
    Response(200, flash, [template |-> "transactions_form.html", modo |-> "edit", item |-> tx_id])

\* the edited row committed whatever the check says
EditValidatedAlwaysCommit(row) ==
    [commit |-> TRUE, response |-> ToIndex(<<"ok", "Transaccion actualizada">>, "transactions_index"), row |-> row]

\* if not t.concepto or t.importe <= 0: flash, render the form (nothing committed);
\* else db.session.commit()
EditValidated(row) ==
    IF row.concepto = <<>> \/ row.importe <= 0
    THEN [commit |-> FALSE, response |-> EditFormPage(<<"error", "Revisa concepto e importe">>, row.id)]
    ELSE [commit |-> TRUE, response |-> ToIndex(<<"ok", "Transaccion actualizada">>, "transactions_index"),
          row |-> row]

\* t.importe = Decimal(...) raises InvalidOperation on an unparsable text; the
\* int(...) of the ids may raise; a NaN importe raises InvalidOperation in
\* t.importe <= 0 unless the empty concepto decided the test before
EditParsed(t, form, imp) ==
    IF imp.kind = "invalid" THEN [commit |-> FALSE, response |-> ServerError("InvalidOperation")]
    ELSE IF IdFieldsExc(form) # "" THEN [commit |-> FALSE, response |-> ServerError(IdFieldsExc(form))]
    ELSE IF imp.kind = "nan"
    THEN IF Strip(Get(form.concepto, <<>>)) = <<>>
         THEN [commit |-> FALSE, response |-> EditFormPage(<<"error", "Revisa concepto e importe">>, t.id)]
         ELSE [commit |-> FALSE, response |-> ServerError("InvalidOperation")]
    ELSE EditValidated(EditedTransaction(t, form, imp))

HasTransaction(txs, tx_id) == \E t \in txs : t.id = tx_id

\* the body of a transactions_edit POST
EditOutcome(txs, tx_id, form) ==
    IF ~HasTransaction(txs, tx_id) THEN [commit |-> FALSE, response |-> NotFound]
    ELSE EditParsed(CHOOSE t \in txs : t.id = tx_id, form,
                    Decimal(Replace(Get(form.importe, <<"0">>), ",", ".")))

\* POST /transacciones/<tx_id>/editar
transactions_edit(tx_id, form) ==
    /\ request' = [handler |-> "transactions_edit", method |-> "POST", via |-> "direct", hops |-> 0,
                   args |-> [y |-> None, m |-> None], form |-> form, tx_id |-> tx_id]
    /\ accounts' = StartupAccounts(accounts)
    /\ categories' = StartupCategories(categories)
    /\ TxApply(EditOutcome(transactions, tx_id, form))
    /\ UNCHANGED <<today, budgets, budget_lines>>

\* POST /transacciones/<tx_id>/eliminar
transactions_delete(tx_id) ==
    /\ request' = [handler |-> "transactions_delete", method |-> "POST", via |-> "direct", hops |-> 0,
                   args |-> [y |-> None, m |-> None], tx_id |-> tx_id]
    /\ accounts' = StartupAccounts(accounts)
    /\ categories' = StartupCategories(categories)
    /\ transactions' = {t \in transactions : t.id # tx_id}
    /\ response' = IF HasTransaction(transactions, tx_id)
                   THEN ToIndex(<<"ok", "Transaccion eliminada">>, "transactions_index")
                   ELSE NotFound
    /\ UNCHANGED <<today, budgets, budget_lines>>

\* ---------------------------------------------------------------- categorias y cuentas

\* c.transactions / a.transactions: the rows whose foreign key is the entity's id
CategoryTransactions(txs, cat_id) == {t \in txs : t.category_id = cat_id}

AccountTransactions(txs, acc_id) == {t \in txs : t.account_id = acc_id}

\* the delete handlers without the "has transactions" test
DeleteDecisionUnchecked(exists, owned) ==
    IF ~exists THEN [delete |-> FALSE, response |-> NotFound]
    ELSE [delete |-> TRUE, response |-> ToIndex(<<"ok", "eliminada">>, "index")]

\* get_or_404; if <entity>.transactions: flash error, redirect; else delete, commit
DeleteDecision(exists, owned) ==
    IF ~exists THEN [delete |-> FALSE, response |-> NotFound]
    ELSE IF owned # {}
    THEN [delete |-> FALSE,
          response |-> ToIndex(<<"error", "No se puede eliminar: tiene transacciones">>, "index")]
    ELSE [delete |-> TRUE, response |-> ToIndex(<<"ok", "eliminada">>, "index")]

\* POST /categorias/<cat_id>/eliminar
category_delete(cat_id) ==
    /\ request' = [handler |-> "category_delete", method |-> "POST", via |-> "direct", hops |-> 0,
                   args |-> [y |-> None, m |-> None], cat_id |-> cat_id]
    /\ accounts' = StartupAccounts(accounts)
    /\ response' = DeleteDecision(\E c \in StartupCategories(categories) : c.id = cat_id,
                                  CategoryTransactions(transactions, cat_id)).response
    /\ categories' = IF DeleteDecision(\E c \in StartupCategories(categories) : c.id = cat_id,
                                       CategoryTransactions(transactions, cat_id)).delete
                     THEN {c \in StartupCategories(categories) : c.id # cat_id}
                     ELSE StartupCategories(categories)
    /\ UNCHANGED <<today, transactions, budgets, budget_lines>>

\* POST /cuentas/<acc_id>/eliminar
accounts_delete(acc_id) ==
    /\ request' = [handler |-> "accounts_delete", method |-> "POST", via |-> "direct", hops |-> 0,
                   args |-> [y |-> None, m |-> None], acc_id |-> acc_id]
    /\ categories' = StartupCategories(categories)
    /\ response' = DeleteDecision(\E a \in StartupAccounts(accounts) : a.id = acc_id,
                                  AccountTransactions(transactions, acc_id)).response
    /\ accounts' = IF DeleteDecision(\E a \in StartupAccounts(accounts) : a.id = acc_id,
                                     AccountTransactions(transactions, acc_id)).delete
                   THEN {a \in StartupAccounts(accounts) : a.id # acc_id}
                   ELSE StartupAccounts(accounts)
    /\ UNCHANGED <<today, transactions, budgets, budget_lines>>

\* s = Decimal(saldo_s), Decimal('0.00') when that raises
SaldoInicial(form) == DecimalOrZero(Decimal(Replace(Get(form.saldo_inicial, <<"0">>), ",", ".")))

\* the body of an accounts_index POST: the name is required and unique
AccountCreated(accs, nombre, saldo) ==
    IF nombre = <<>> THEN [accounts |-> accs, flash |-> <<"error", "El nombre es obligatorio">>]
    ELSE IF \E a \in accs : a.nombre = nombre
    THEN [accounts |-> accs, flash |-> <<"error", "No se pudo crear (nombre duplicado?)">>]
    ELSE [accounts |-> accs \cup {[id |-> NextId(accs), nombre |-> nombre, saldo_inicial |-> saldo]},
          flash |-> <<"ok", "Cuenta creada">>]

\* POST /cuentas
accounts_index(form) ==
    /\ request' = [handler |-> "accounts_index", method |-> "POST", via |-> "direct", hops |-> 0,
                   args |-> [y |-> None, m |-> None], form |-> form]
    /\ categories' = StartupCategories(categories)
    /\ accounts' = AccountCreated(StartupAccounts(accounts), Strip(Get(form.nombre, <<>>)),
                                  SaldoInicial(form)).accounts
    /\ response' = ToIndex(AccountCreated(StartupAccounts(accounts), Strip(Get(form.nombre, <<>>)),
                                          SaldoInicial(form)).flash, "accounts_index")
    /\ UNCHANGED <<today, transactions, budgets, budget_lines>>

IngresoText == <<"i", "n", "g", "r", "e", "s", "o">>

GastoText == <<"g", "a", "s", "t", "o">>

\* the body of a categories_index POST: the name is required, tipo is 'ingreso'
\* or 'gasto', the name is unique
CategoryCreated(cats, nombre, tipo) ==
    IF nombre = <<>> THEN [categories |-> cats, flash |-> <<"error", "El nombre es obligatorio">>]
    ELSE IF tipo \notin {IngresoText, GastoText}
    THEN [categories |-> cats, flash |-> <<"error", "Tipo invalido">>]
    ELSE IF \E c \in cats : c.nombre = nombre
    THEN [categories |-> cats, flash |-> <<"error", "No se pudo crear (nombre duplicado?)">>]
    ELSE [categories |-> cats \cup {[id |-> NextId(cats), nombre |-> nombre,
                                     tipo |-> IF tipo = IngresoText THEN "ingreso" ELSE "gasto"]},
          flash |-> <<"ok", "Categoria creada">>]

\* POST /categorias (MaxId caps the ids the model lets the table reach)
categories_index(form, MaxId) ==
    /\ NextId(StartupCategories(categories)) <= MaxId
    /\ request' = [handler |-> "categories_index", method |-> "POST", via |-> "direct", hops |-> 0,
                   args |-> [y |-> None, m |-> None], form |-> form]
    /\ accounts' = StartupAccounts(accounts)
    /\ categories' = CategoryCreated(StartupCategories(categories), Strip(Get(form.nombre, <<>>)),
                                     Get(form.tipo, GastoText)).categories
    /\ response' = ToIndex(CategoryCreated(StartupCategories(categories), Strip(Get(form.nombre, <<>>)),
                                           Get(form.tipo, GastoText)).flash, "categories_index")
    /\ UNCHANGED <<today, transactions, budgets, budget_lines>>

\* ---------------------------------------------------------------- cycle navigation

\* links followed in a row from one directly requested page
MaxFollow == 1

\* date.today() is drawn from every day of one leap year and from the first and
\* the last month a date can lie in
AllDates ==
    {dt \in [year : {MINYEAR, 2024, MAXYEAR}, month : 1..12, day : 1..31] :
        /\ dt.day <= DaysInMonth(dt.year, dt.month)
        /\ dt.year = MINYEAR => dt.month = 1
        /\ dt.year = MAXYEAR => dt.month = 12}

\* (y, m) of a directly typed query string
DirectArgs ==
    { <<None, None>>,
      <<<<"2", "0", "2", "4">>, None>>,
      <<<<"2", "0", "2", "4">>, <<"1">>>>,
      <<<<"2", "0", "2", "4">>, <<"1", "2">>>>,
      <<<<"2", "0", "2", "4">>, <<"1", "3">>>>,
      <<<<"1">>, <<"1">>>>,
      <<<<"9", "9", "9", "9">>, <<"1", "2">>>>,
      <<<<"x">>, <<"1">>>> }

NoRequest == [handler |-> "none", method |-> "GET", via |-> "direct", hops |-> 0, args |-> [y |-> None, m |-> None]]

NoResponse == Response(0, NoFlash, NoPage)

EmptyTables ==
    /\ accounts = {}
    /\ categories = {}
    /\ transactions = {}
    /\ budgets = {}
    /\ budget_lines = {}

InitCycle ==
    /\ today \in AllDates
    /\ EmptyTables
    /\ request = NoRequest
    /\ response = NoResponse

NextCycle ==
    \/ home
    \/ FollowRedirect
    \/ \E a \in DirectArgs : resumen(a[1], a[2], "direct", 0)
    \/ \E a \in DirectArgs : budget_index("GET", a[1], a[2], NoForm, "direct", 0)
    \/ \E which \in {"prev", "next"} : FollowLink(which, MaxFollow)

SpecCycle == InitCycle /\ [][NextCycle]_vars

\* ---------------------------------------------------------------- ledger requests

\* the largest transaction id the model lets the table reach
MaxTxId == 2

\* the date date.today() returns in the ledger and budget specifications
LedgerToday == [year |-> 2024, month |-> 2, day |-> 10]

TxForm(fecha, concepto, importe, account_id, category_id) ==
    [fecha |-> fecha, concepto |-> concepto, importe |-> importe,
     account_id |-> account_id, category_id |-> category_id]

Jan10 == <<"2", "0", "2", "4", "-", "0", "1", "-", "1", "0">>

NaNText == <<"n", "a", "n">>

\* submissions the handlers accept: an expense of today on account 1, an income of
\* the previous cycle on account 1, and two on account 3 (which exists only once
\* created), one of them with a category id no category has
ValidTxForms ==
    { TxForm(None, <<"p", "a", "n">>, <<"2", ",", "5">>, <<"1">>, <<"2">>),
      TxForm(Jan10, <<" ", "s">>, <<"1", "0">>, <<"1">>, <<"1">>),
      TxForm(Jan10, <<"x">>, <<"1", "0">>, <<"3">>, <<"9">>),
      TxForm(None, <<"s">>, <<"4">>, <<"3">>, <<"1">>) }

\* submissions with one field wrong: blank concepto, zero, negative, unparsable,
\* NaN and missing importe, unparsable account id, missing category id
BadTxForms ==
    { TxForm(None, <<" ">>, <<"2", ",", "5">>, <<"1">>, <<"2">>),
      TxForm(None, <<"p", "a", "n">>, <<"0">>, <<"1">>, <<"2">>),
      TxForm(None, <<"p", "a", "n">>, <<"-", "1">>, <<"1">>, <<"2">>),
      TxForm(None, <<"p", "a", "n">>, <<"a", "b", "c">>, <<"1">>, <<"2">>),
      TxForm(None, <<"p", "a", "n">>, NaNText, <<"1">>, <<"2">>),
      TxForm(None, <<"p", "a", "n">>, None, <<"1">>, <<"2">>),
      TxForm(None, <<"p", "a", "n">>, <<"2", ",", "5">>, <<"x">>, <<"2">>),
      TxForm(None, <<"p", "a", "n">>, <<"2", ",", "5">>, <<"1">>, None) }

TxForms == ValidTxForms \cup BadTxForms

Ahorro == <<"A", "h", "o", "r", "r", "o">>

AccountForms ==
    { [nombre |-> Ahorro, saldo_inicial |-> <<"1", "0", "0">>],
      [nombre |-> Ahorro, saldo_inicial |-> <<"x">>],
      [nombre |-> <<" ">>, saldo_inicial |-> <<"5">>],
      [nombre |-> <<"B", "a", "n", "c", "o">>, saldo_inicial |-> <<"1">>] }

\* (y, m) of the resumen pages asked for: today's cycle, the cycle before it, the
\* one after it
LedgerArgs ==
    { <<None, None>>,
      <<<<"2", "0", "2", "3">>, <<"1", "2">>>>,
      <<<<"2", "0", "2", "4">>, <<"2">>>> }

InitLedger ==
    /\ today = LedgerToday
    /\ EmptyTables
    /\ request = NoRequest
    /\ response = NoResponse

Init == InitLedger

Next ==
    \/ \E f \in TxForms : transactions_new(f, MaxTxId)
    \/ \E id \in 1..MaxTxId, f \in TxForms : transactions_edit(id, f)
    \/ \E id \in 1..MaxTxId : transactions_delete(id)
    \/ \E f \in AccountForms : accounts_index(f)
    \/ \E a \in LedgerArgs : resumen(a[1], a[2], "direct", 0)

Spec == Init /\ [][Next]_vars

\* ---------------------------------------------------------------- delete requests

\* submissions used to give accounts and categories transactions
DeleteTxForms ==
    { TxForm(None, <<"p", "a", "n">>, <<"2", ",", "5">>, <<"1">>, <<"2">>),
      TxForm(Jan10, <<"s">>, <<"1", "0">>, <<"2">>, <<"1">>) }

NextDelete ==
    \/ \E f \in DeleteTxForms : transactions_new(f, MaxTxId)
    \/ \E id \in 1..MaxTxId : transactions_delete(id)
    \/ \E id \in {1, 2, 3} : accounts_delete(id)
    \/ \E id \in {1, 2, 5, 9} : category_delete(id)

SpecDelete == InitLedger /\ [][NextDelete]_vars

\* ---------------------------------------------------------------- budget requests

\* the largest budget line id the model lets the table reach
MaxLineId == 2

\* a blank, zero, negative, unparsable, NaN and two positive values
CatValues == { <<" ">>, <<"0">>, <<"-", "1">>, <<"x">>, NaNText, <<"7", ",", "5">>, <<"2", "0">> }

\* the values that come in pairs
PairValues == { <<"0">>, NaNText, <<"7", ",", "5">> }

\* the cat_<id> fields of a form for today's cycle: none, cat_2 with any value,
\* cat_3 blank, zero or positive, or both fields
CatMaps ==
    {<<>>} \cup [{2} -> CatValues] \cup [{3} -> {<<" ">>, <<"0">>, <<"7", ",", "5">>}] \cup [{2, 3} -> PairValues]

\* the cat_<id> fields of a form for the next cycle
NextCycleCatMaps == {<<>>} \cup [{2} -> {<<"0">>, <<"7", ",", "5">>}] \cup [{3} -> {<<"2", "0">>}]

\* (y, m) of a budget page: none (today's cycle) or the next cycle
BudgetArgs == { <<None, None>>, <<<<"2", "0", "2", "4">>, <<"2">>>> }

BudgetForm(y, m, income_estimated, cat) == [y |-> y, m |-> m, income_estimated |-> income_estimated, cat |-> cat]

BudgetForms ==
    {BudgetForm(None, None, None, c) : c \in CatMaps}
    \cup {BudgetForm(<<"2", "0", "2", "4">>, <<"2">>, None, c) : c \in NextCycleCatMaps}
    \cup {BudgetForm(None, None, <<"1", "5", "0", "0">>, <<>>),
          BudgetForm(<<"2", "0", "2", "4">>, <<"1", "3">>, None, <<>>)}

\* the POST leaves no line id above max_id in the table
WithinLineIds(form, max_id) ==
    IF IsExc(RequestCycle(form.y, form.m, today)) THEN TRUE
    ELSE \A l \in BudgetPost(StartupCategories(categories), budgets, budget_lines,
                           RequestCycle(form.y, form.m, today).start, form).budget_lines : l.id <= max_id

NextBudget ==
    \/ \E f \in BudgetForms : WithinLineIds(f, MaxLineId) /\ budget_index("POST", None, None, f, "direct", 0)
    \/ \E a \in BudgetArgs : budget_index("GET", a[1], a[2], NoForm, "direct", 0)
    \/ FollowRedirect

SpecBudget == InitLedger /\ [][NextBudget]_vars

\* ---------------------------------------------------------------- chart requests

\* the largest category id the model lets the table reach
MaxCatId == 6

Ocio == <<"O", "c", "i", "o">>

\* a new expense category, a new income category of the same name, a blank
\* name, a tipo that is neither, and a name already taken
CategoryForms ==
    { [nombre |-> Ocio, tipo |-> None],
      [nombre |-> Ocio, tipo |-> IngresoText],
      [nombre |-> <<" ">>, tipo |-> GastoText],
      [nombre |-> <<"a">>, tipo |-> <<"x">>],
      [nombre |-> <<"S", "a", "l", "a", "r", "i", "o">>, tipo |-> IngresoText] }

Feb24 == <<"2", "0", "2", "4", "-", "0", "2", "-", "2", "4">>

\* an expense of today, an income of the cycle's last day, an expense of the
\* previous cycle's category 5, and a transaction whose category id no category has
ChartTxForms ==
    { TxForm(None, <<"p", "a", "n">>, <<"2", ",", "5">>, <<"1">>, <<"2">>),
      TxForm(Feb24, <<"s">>, <<"1", "0">>, <<"1">>, <<"1">>),
      TxForm(Jan10, <<"t">>, <<"3">>, <<"1">>, <<"5">>),
      TxForm(None, <<"x">>, <<"4">>, <<"1">>, <<"9">>) }

\* an edit that moves a transaction to today and category 5
ChartEditForms == { TxForm(None, <<"g">>, <<"6">>, <<"1">>, <<"5">>) }

\* budgets of today's cycle for the categories 5 and 2, and a zero that deletes
\* the line of category 5
ChartBudgetForms ==
    { BudgetForm(None, None, None, (5 :> <<"2", "0">>)),
      BudgetForm(None, None, None, (2 :> <<"7", ",", "5">>)),
      BudgetForm(None, None, None, (5 :> <<"0">>)) }

\* (y, m) of the resumen pages asked for: today's cycle and the cycle before it
ChartArgs == { <<None, None>>, <<<<"2", "0", "2", "3">>, <<"1", "2">>>> }

NextCharts ==
    \/ \E id \in {5} : category_delete(id)
    \/ \E f \in ChartTxForms : transactions_new(f, MaxTxId)
    \/ \E id \in 1..MaxTxId : transactions_delete(id)
    \/ \E f \in ChartBudgetForms : WithinLineIds(f, MaxLineId) /\ budget_index("POST", None, None, f, "direct", 0)
    \/ \E a \in ChartArgs : resumen(a[1], a[2], "direct", 0)

SpecCharts == InitLedger /\ [][NextCharts]_vars

\* ---------------------------------------------------------------- category requests

\* budgets of today's cycle for the categories 5 and 6, and a zero that deletes
\* the line of category 5
CategoryBudgetForms ==
    { BudgetForm(None, None, None, (5 :> <<"2", "0">>)),
      BudgetForm(None, None, None, (6 :> <<"9">>)),
      BudgetForm(None, None, None, (5 :> <<"0">>)) }

NextCategories ==
    \/ \E f \in CategoryForms : categories_index(f, MaxCatId)
    \/ \E id \in {2, 5, 6} : category_delete(id)
    \/ \E f \in DeleteTxForms : transactions_new(f, MaxTxId)
    \/ \E id \in 1..MaxTxId, f \in ChartEditForms : transactions_edit(id, f)
    \/ \E id \in 1..MaxTxId : transactions_delete(id)
    \/ \E f \in CategoryBudgetForms : WithinLineIds(f, MaxLineId) /\ budget_index("POST", None, None, f, "direct", 0)

SpecCategories == InitLedger /\ [][NextCategories]_vars

\* ---------------------------------------------------------------- cycle claims

\* the reference date a cycle page was computed from: date(y, m, 25) of the
\* query string, or date.today()
ShownByCycleHandler == request.handler \in {"resumen", "budget_index"} /\ request.method = "GET"

HasRefArgs == Truthy(request.args.y) /\ Truthy(request.args.m)

RefIsDate == HasRefArgs => (int(request.args.y).ok /\ int(request.args.m).ok
                             /\ ~IsExc(date(int(request.args.y).val, int(request.args.m).val, CYCLE_START_DAY)))

RequestRef ==
    IF HasRefArgs THEN date(int(request.args.y).val, int(request.args.m).val, CYCLE_START_DAY) ELSE today

\* day 25 of the calendar month following start's month
FollowingMonth25(start) ==
    IF start.month = 12 THEN [year |-> start.year + 1, month |-> 1, day |-> 25]
    ELSE [year |-> start.year, month |-> start.month + 1, day |-> 25]

CycleContains(page, d) ==
    /\ DateLE(page.d1, d)
    /\ DateLT(d, page.d2)
    /\ page.d1.day = 25
    /\ page.d2 = FollowingMonth25(page.d1)

\* C1 as stated: for every valid date d, cycle_bounds(d) returns (start, end)
\* with start <= d < end, start.day = 25 and end the 25th of the month after
\* start's month.
C1_EveryValidDate ==
    (ShownByCycleHandler /\ RefIsDate) => (IsPage(response) /\ CycleContains(response.page, RequestRef))

FirstCycleStart == [year |-> MINYEAR, month |-> 1, day |-> 25]

LastCycleEnd == [year |-> MAXYEAR, month |-> 12, day |-> 25]

\* C1 amended: for every date d with 0001-01-25 <= d < 9999-12-25,
\* cycle_bounds(d) returns (start, end) with start <= d < end, start.day = 25
\* and end the 25th of the month after start's month; for the other dates the
\* start or the end is no representable date and cycle_bounds raises ValueError.
C1_DatesWithRepresentableCycle ==
    (ShownByCycleHandler /\ RefIsDate)
        => IF DateLE(FirstCycleStart, RequestRef) /\ DateLT(RequestRef, LastCycleEnd)
           THEN IsPage(response) /\ CycleContains(response.page, RequestRef)
           ELSE response.status = 500 /\ response.page.exc = "ValueError"

\* C1 witness: today lies before the 25th of January and the page shows the
\* cycle that starts on the 25th of December of the previous year
C1_Witness ==
    /\ ShownByCycleHandler /\ ~HasRefArgs /\ IsPage(response)
    /\ today.month = 1 /\ today.day < 25
    /\ response.page.d1 = [year |-> today.year - 1, month |-> 12, day |-> 25]
    /\ response.page.d2 = [year |-> today.year, month |-> 1, day |-> 25]

\* C2: the cycle re-derived from the displayed cycle's end (the next-cycle
\* anchor) starts exactly where the displayed cycle ends.
C2_NextCycleAdjacent ==
    [][(request'.via = "next" /\ IsPage(response')) => response'.page.d1 = response.page.d2]_vars

\* C2 witness: the next link was followed across the year's end
C2_Witness ==
    /\ request.via = "next" /\ IsPage(response)
    /\ response.page.d1.month = 12 /\ response.page.d2.month = 1
    /\ response.page.d2.year = response.page.d1.year + 1

\* C3 as stated: re-deriving the cycle from the previous-cycle anchor's year and
\* month (ref = date(y, m, 25)) yields the cycle that ends where the displayed
\* one starts.
C3_PrevCyclePrecedes ==
    [][(request'.via = "prev" /\ IsPage(response')) => response'.page.d2 = response.page.d1]_vars

\* ---------------------------------------------------------------- ledger claims

SubmittedImporte(form) == Decimal(Replace(Get(form.importe, <<"0">>), ",", "."))

IncomeOf(a) == {t \in transactions : t.account_id = a.id /\ \E c \in categories : c.id = t.category_id /\ c.tipo = "ingreso"}

OthersOf(a) == {t \in transactions : t.account_id = a.id} \ IncomeOf(a)

\* C5: the balance resumen reports for an account is its initial balance plus
\* the amounts of all its income transactions minus the amounts of all its
\* other transactions, over the whole table, whichever cycle is displayed.
C5_SaldoOverFullHistory ==
    (request.handler = "resumen" /\ IsPage(response))
        => \A a \in accounts :
              response.page.saldos[a.id]
                  = a.saldo_inicial + SumFn([t \in transactions |-> t.importe], IncomeOf(a))
                                    - SumFn([t \in transactions |-> t.importe], OthersOf(a))

\* C5 witness: a page whose cycle leaves out a transaction of an account that
\* has a non-zero initial balance, an income and another transaction
C5_Witness ==
    /\ request.handler = "resumen"
    /\ IsPage(response)
    /\ \E a \in accounts :
          /\ a.saldo_inicial # 0
          /\ IncomeOf(a) # {}
          /\ \E t \in OthersOf(a) : DateLT(t.fecha, response.page.d1)
          /\ \E t \in IncomeOf(a) : DateLE(response.page.d1, t.fecha) /\ DateLT(t.fecha, response.page.d2)

\* an empty concept, a non-positive amount or an unparsable amount text
BadSubmission(form) ==
    \/ Strip(Get(form.concepto, <<>>)) = <<>>
    \/ SubmittedImporte(form).kind = "invalid"
    \/ SubmittedImporte(form).kind = "num" /\ SubmittedImporte(form).cents <= 0

\* C7 as stated: a transactions_new or transactions_edit submission with an
\* empty concept, a non-positive amount or an unparsable amount ends with an
\* error message (no unhandled exception) and leaves the transactions as they were.
C7_BadSubmissionGetsMessage ==
    [][(/\ request'.handler \in {"transactions_new", "transactions_edit"}
        /\ BadSubmission(request'.form)
        /\ IdFieldsExc(request'.form) = ""
        /\ request'.handler = "transactions_edit" => HasTransaction(transactions, request'.tx_id))
       => (/\ response'.status = 200
           /\ response'.flash # NoFlash
           /\ response'.flash[1] = "error"
           /\ transactions' = transactions)]_vars

\* ---------------------------------------------------------------- delete claims

Rejected(r) == r.status = 302 /\ r.flash = <<"error", "No se puede eliminar: tiene transacciones">>

\* the tables as the handler leaves them when it deletes nothing: those the
\* before_request hook handed it
NothingDeleted ==
    /\ accounts' = StartupAccounts(accounts)
    /\ categories' = StartupCategories(categories)
    /\ UNCHANGED <<transactions, budgets, budget_lines>>

\* C6: accounts_delete on an account with a transaction and category_delete on
\* a category with a transaction are rejected with an error message and delete
\* nothing; the entity is deleted only when it has no transactions.
C6_DeleteRejectedWhileOwned ==
    [][/\ request'.handler = "accounts_delete"
          => /\ (/\ \E a \in StartupAccounts(accounts) : a.id = request'.acc_id
                 /\ AccountTransactions(transactions, request'.acc_id) # {})
                   => (NothingDeleted /\ Rejected(response'))
             /\ (\E a \in StartupAccounts(accounts) : a.id = request'.acc_id /\ a \notin accounts')
                   => AccountTransactions(transactions, request'.acc_id) = {}
       /\ request'.handler = "category_delete"
          => /\ (/\ \E c \in StartupCategories(categories) : c.id = request'.cat_id
                 /\ CategoryTransactions(transactions, request'.cat_id) # {})
                   => (NothingDeleted /\ Rejected(response'))
             /\ (\E c \in StartupCategories(categories) : c.id = request'.cat_id /\ c \notin categories')
                   => CategoryTransactions(transactions, request'.cat_id) = {}]_vars

\* C6 witness: a category_delete was rejected for a category that has a
\* transaction, after an account without transactions had been deleted
C6_Witness ==
    /\ request.handler = "category_delete"
    /\ Rejected(response)
    /\ \E c \in categories : c.id = request.cat_id
    /\ CategoryTransactions(transactions, request.cat_id) # {}
    /\ accounts # {} /\ accounts # SeedAccounts

\* ---------------------------------------------------------------- budget claims

IsBudgetPost(r) == r.handler = "budget_index" /\ r.method = "POST"

\* the ids of the budget of the cycle a form is for (none when the cycle is none)
TargetIds(form, bs) ==
    IF IsExc(RequestCycle(form.y, form.m, today)) THEN {}
    ELSE {b.id : b \in {b \in bs : b.cycle_start = RequestCycle(form.y, form.m, today).start}}

NonPositiveText(v) ==
    /\ Strip(v) # <<>>
    /\ \/ Decimal(Replace(Strip(v), ",", ".")).kind = "invalid"
       \/ /\ Decimal(Replace(Strip(v), ",", ".")).kind = "num"
          /\ Decimal(Replace(Strip(v), ",", ".")).cents <= 0

\* C9 as stated: after a budget_index POST the target cycle's budget has no
\* line for any expense category whose submitted value is a non-blank text that
\* parses to an amount <= 0 or does not parse (an existing line is deleted, none
\* is created).
C9_NonPositiveDeletes ==
    [][(IsBudgetPost(request') /\ ~IsExc(RequestCycle(request'.form.y, request'.form.m, today)))
       => \A cid \in DOMAIN request'.form.cat \cap GastoIds(categories') :
             NonPositiveText(request'.form.cat[cid])
                => ~ \E l \in budget_lines' :
                        l.category_id = cid /\ l.budget_id \in TargetIds(request'.form, budgets')]_vars

\* a line the POST of form must leave alone: of another cycle's budget, or of a
\* category whose value is blank or absent
Untouched(form, bs, l) ==
    \/ l.budget_id \notin TargetIds(form, bs)
    \/ Strip(Or(FormCat(form, l.category_id), <<>>)) = <<>>

\* C10: a budget_index POST leaves unchanged every line of its cycle whose
\* category's value is blank or absent, and every budget and line of any other
\* cycle.
C10_BlankAndOtherCyclesUntouched ==
    [][IsBudgetPost(request')
       => /\ {l \in budget_lines : Untouched(request'.form, budgets', l)}
               = {l \in budget_lines' : Untouched(request'.form, budgets', l)}
          /\ {b \in budgets : b.id \notin TargetIds(request'.form, budgets')}
               = {b \in budgets' : b.id \notin TargetIds(request'.form, budgets')}]_vars

\* C10 witness: a POST was committed with a blank field for a category that has
\* a line in its budget, while another cycle's budget has a line too
C10_Witness ==
    /\ IsBudgetPost(request)
    /\ response.status = 302
    /\ \E l \in budget_lines :
          /\ l.budget_id \in TargetIds(request.form, budgets)
          /\ l.category_id \in DOMAIN request.form.cat
          /\ Strip(request.form.cat[l.category_id]) = <<>>
    /\ \E l \in budget_lines : l.budget_id \notin TargetIds(request.form, budgets)

\* ---------------------------------------------------------------- chart claims

IsResumenPage == request.handler = "resumen" /\ IsPage(response)

\* the lines the budget keyed by cycle start d1 holds for category c
PlannedIn(c, d1) ==
    {l \in budget_lines : l.category_id = c.id /\ \E b \in budgets : b.id = l.budget_id /\ b.cycle_start = d1}

\* the transactions of category c dated within [d1, d2)
SpentIn(c, d1, d2) ==
    {t \in transactions : t.category_id = c.id /\ DateLE(d1, t.fecha) /\ DateLT(t.fecha, d2)}

\* the expense categories with a plan or a spend in the cycle
Reported(d1, d2) ==
    {c \in categories : c.tipo # "ingreso" /\ (PlannedIn(c, d1) # {} \/ SpentIn(c, d1, d2) # {})}

BudgetVsActualIs(p, reported) ==
    /\ Len(p.labels_bv) = Cardinality(reported)
    /\ Len(p.data_budget) = Len(p.labels_bv)
    /\ Len(p.data_spent) = Len(p.labels_bv)
    /\ {p.labels_bv[i] : i \in DOMAIN p.labels_bv} = {c.nombre : c \in reported}
    /\ \A i, j \in DOMAIN p.labels_bv : i < j => NameLT(p.labels_bv[i], p.labels_bv[j])
    /\ \A i \in DOMAIN p.labels_bv : \A c \in reported :
          c.nombre = p.labels_bv[i]
             => /\ p.data_budget[i] = SumFn([l \in budget_lines |-> l.amount], PlannedIn(c, p.d1))
                /\ p.data_spent[i] = SumFn([t \in transactions |-> t.importe], SpentIn(c, p.d1, p.d2))

\* C11: resumen's budget-vs-actual output lists exactly the expense categories
\* that have a line in the budget of the cycle's start date or a transaction
\* dated within the cycle, each once, in ascending order of name, with the
\* planned amount (0 without a line) and the spent amount (0 without
\* transactions); an expense category with neither is not listed.
C11_BudgetVsActualCategories ==
    IsResumenPage => BudgetVsActualIs(response.page, Reported(response.page.d1, response.page.d2))

\* C11 witness: a page listing a category with a plan and no spend before a
\* category of smaller id with a spend and no plan, while another expense
\* category has neither
C11_Witness ==
    /\ IsResumenPage
    /\ Len(response.page.labels_bv) = 2
    /\ response.page.data_budget[1] > 0 /\ response.page.data_spent[1] = 0
    /\ response.page.data_budget[2] = 0 /\ response.page.data_spent[2] > 0
    /\ \E c1, c2 \in categories :
          /\ c1.nombre = response.page.labels_bv[1]
          /\ c2.nombre = response.page.labels_bv[2]
          /\ c2.id < c1.id
    /\ \E c \in categories : c.tipo # "ingreso" /\ c \notin Reported(response.page.d1, response.page.d2)

RECURSIVE CycleDay(_, _)
\* the i-th calendar day of the cycle that starts on d1
CycleDay(d1, i) == IF i = 1 THEN d1 ELSE PlusOneDay(CycleDay(d1, i - 1))

\* the cycle's transactions dated d that the income total / the expense total counts
IncomeOn(d1, d2, d) ==
    {t \in transactions : t.fecha = d /\ DateLE(d1, d) /\ DateLT(d, d2) /\ IsIngreso(categories, t.category_id)}

ExpenseOn(d1, d2, d) ==
    {t \in transactions : t.fecha = d /\ DateLE(d1, d) /\ DateLT(d, d2) /\ IsGasto(categories, t.category_id)}

RECURSIVE SumTo(_, _)
SumTo(series, i) == IF i = 0 THEN 0 ELSE SumTo(series, i - 1) + series[i]

DailySeriesIs(p, n) ==
    /\ n \in 28..31
    /\ CycleDay(p.d1, n) = MinusOneDay(p.d2)
    /\ Len(p.labels_days) = n
    /\ Len(p.series_ingresos_diario) = n /\ Len(p.series_gastos_diario) = n
    /\ Len(p.series_ingresos) = n /\ Len(p.series_gastos) = n
    /\ \A i \in 1..n :
          /\ p.labels_days[i] = [d |-> CycleDay(p.d1, i).day, m |-> CycleDay(p.d1, i).month]
          /\ p.series_ingresos_diario[i]
               = SumFn([t \in transactions |-> t.importe], IncomeOn(p.d1, p.d2, CycleDay(p.d1, i)))
          /\ p.series_gastos_diario[i]
               = SumFn([t \in transactions |-> t.importe], ExpenseOn(p.d1, p.d2, CycleDay(p.d1, i)))
          /\ p.series_ingresos[i] = SumTo(p.series_ingresos_diario, i)
          /\ p.series_gastos[i] = SumTo(p.series_gastos_diario, i)
    /\ p.series_ingresos[n] = p.ingresos
    /\ p.series_gastos[n] = p.gastos

\* C12 as stated: resumen's daily series has one entry per calendar day of
\* [d1, d2) in ascending order (28 to 31 entries), each daily entry is the sum
\* of the cycle's income / expense transactions of that day, each cumulative
\* entry is the sum of the daily entries up to that day, and the last cumulative
\* values equal the cycle's income and expense totals.
C12_DailySeriesMatchTotals ==
    IsResumenPage => DailySeriesIs(response.page, DaysInMonth(response.page.d1.year, response.page.d1.month))

\* ---------------------------------------------------------------- category claims

\* C13 as stated: every persisted budget line references a category that
\* exists; category_delete never leaves a line pointing at a deleted category.
C13_LinesReferenceCategories ==
    \A l \in budget_lines : \E c \in categories : c.id = l.category_id

====
